---- MODULE Spec2Model ----
(***************************************************************************)
(* Model of the numerical kernels of src/wasm: the DTW aligner (dtw.cpp),  *)
(* the HMM decoder and its global instance (hmm.cpp), and the framing loop *)
(* of processAudioFrames (audio_processor.cpp).                            *)
(*                                                                         *)
(* Numbers.  DTW distances are doubles in the source.  Here a distance is  *)
(* a fixed-point number, an integer count of 1/Scale units, and +infinity  *)
(* is the integer Inf, larger than every finite sum the model can form;    *)
(* Plus saturates at Inf as IEEE addition does.                            *)
(*                                                                         *)
(* HMM log-probabilities are doubles too.  A log-domain value is a record  *)
(* [z, num, exp]:                                                          *)
(*   z = 0   the finite value log(num / 10^exp), num >= 1, kept in lowest  *)
(*           terms, so that equal values are equal records;               *)
(*   z >= 1  the double -z * 1e30.  LOG_ZERO is z = 1.                     *)
(* Double addition of two such values is exact on the finite ones (the     *)
(* model computes in the reals there) and absorbs a finite addend into a   *)
(* multiple of 1e30 (1e30 has an ulp of about 1.4e14), but it adds the     *)
(* multiples: LOG_ZERO + LOG_ZERO is -2e30, which is not LOG_ZERO.         *)
(* Probabilities handed to the setters are integers counting tenths.       *)
(***************************************************************************)
EXTENDS Integers, Sequences, FiniteSets, TLC

(***************************************************************************)
(* Bounds of the model.                                                    *)
(***************************************************************************)
MaxLen1 == 3       \* longest sequence1 handed to computeDTW
MaxLen2 == 2       \* longest sequence2 handed to computeDTW
MaxBand == 1       \* largest band_width handed to computeDTW
Scale == 10        \* fixed-point resolution: one unit is 1/Scale

Inf == 1000000     \* std::numeric_limits<double>::infinity()

\* The feature vectors the sequences are drawn from: the zero vector and two
\* non-parallel vectors, whose pairwise distances differ under every metric.
Vectors == {<<0, 0>>, <<1, 0>>, <<1, 2>>}

Metrics == {"EUCLIDEAN", "MANHATTAN", "COSINE"}

VARIABLES
    sequence1,      \* computeDTW argument
    sequence2,      \* computeDTW argument
    band_width,     \* computeDTW argument
    metric,         \* computeDTW argument
    return_path,    \* computeDTW argument
    dtw_pc,         \* "call" before computeDTW has run, "done" after
    result          \* the DTWResult returned

VARIABLES
    num_states,         \* HMM::num_states
    num_observations,   \* HMM::num_observations
    transition_probs,   \* HMM::transition_probs, [0..N-1 -> [0..N-1 -> log value]]
    emission_probs,     \* HMM::emission_probs,   [0..N-1 -> [0..K-1 -> log value]]
    initial_probs,      \* HMM::initial_probs,    [0..N-1 -> log value]
    stray,              \* TRUE once a setter has stored outside the three tables
    ref,                \* the parameter table the caller configures the HMM from
    op,                 \* the last member function called
    args,               \* the arguments handed to the last setter call
    observations,       \* the observations handed to the last decoding call
    ret_path,           \* what viterbi returned
    ret_logp,           \* what forward or backward returned
    oob_read            \* TRUE when that viterbi call indexed its table with -1

VARIABLES
    audio,              \* processAudioFrames: the samples of audio_data
    frame_length,       \* processAudioFrames argument
    hop_size,           \* processAudioFrames argument
    frame_i,            \* the loop variable i of processAudioFrames
    features,           \* the MFCC vectors pushed so far
    frames_pc,          \* "idle", "loop", "done", or "exhausted"
    frames_oob          \* TRUE once a frame was copied from outside audio

VARIABLES
    global_hmm,         \* the pointer global_hmm: "null", "live" or "wild"
    instances           \* the HMM objects constructed and not yet destroyed

dtw_vars == <<sequence1, sequence2, band_width, metric, return_path, dtw_pc, result>>
tables == <<transition_probs, emission_probs, initial_probs>>
call_vars == <<op, args, observations, ret_path, ret_logp, oob_read>>
hmm_vars == <<num_states, num_observations, tables, stray, ref, call_vars>>
frame_vars == <<audio, frame_length, hop_size, frame_i, features, frames_pc, frames_oob>>
global_vars == <<global_hmm, instances>>
vars == <<dtw_vars, hmm_vars, frame_vars, global_vars>>

----------------------------------------------------------------------------
(* Arithmetic helpers *)

Abs(x) == IF x < 0 THEN -x ELSE x
Max2(a, b) == IF a < b THEN b ELSE a
Min2(a, b) == IF b < a THEN b ELSE a

\* IEEE addition of non-NaN distances: anything plus +infinity is +infinity.
Plus(a, b) == IF a = Inf \/ b = Inf THEN Inf ELSE a + b

\* floor(sqrt(x)) for x >= 0
RECURSIVE ISqrtFrom(_, _)
ISqrtFrom(x, r) == IF (r + 1) * (r + 1) > x THEN r ELSE ISqrtFrom(x, r + 1)

\* sqrt of the integer x, as a fixed-point number
Sqrt(x) == ISqrtFrom(x * Scale * Scale, 0)

\* sum of f[k] for k in 1..n
RECURSIVE SumTo(_, _)
SumTo(f, n) == IF n = 0 THEN 0 ELSE SumTo(f, n - 1) + f[n]

----------------------------------------------------------------------------
(* dtw.cpp: calculateDistance *)

calculateDistance(vec1, vec2, m) ==
    IF Len(vec1) # Len(vec2) THEN Inf
    ELSE LET d == Len(vec1)
             sq == [k \in 1..d |-> (vec1[k] - vec2[k]) * (vec1[k] - vec2[k])]
             ab == [k \in 1..d |-> Abs(vec1[k] - vec2[k])]
             dot_product == SumTo([k \in 1..d |-> vec1[k] * vec2[k]], d)
             norm1 == SumTo([k \in 1..d |-> vec1[k] * vec1[k]], d)
             norm2 == SumTo([k \in 1..d |-> vec2[k] * vec2[k]], d)
         IN CASE m = "EUCLIDEAN" -> Sqrt(SumTo(sq, d))
              [] m = "MANHATTAN" -> Scale * SumTo(ab, d)
              [] m = "COSINE" ->
                    IF norm1 = 0 \/ norm2 = 0 THEN Scale
                    ELSE Scale - ((dot_product * Scale * Scale * Scale)
                                    \div (Sqrt(norm1) * Sqrt(norm2)))

----------------------------------------------------------------------------
(* dtw.cpp: computeDTW.  Matrices are functions [0..n-1 -> [0..m-1 -> Int]]; *)
(* sequence1[i] of the source is s1[i+1] here.                               *)

\* lines 84-86
EffectiveBand(n, m, bw) == IF bw <= 0 THEN Max2(n, m) ELSE bw

\* lines 92-101
LocalDistances(s1, s2, bw, met) ==
    [i \in 0..(Len(s1) - 1) |-> [j \in 0..(Len(s2) - 1) |->
        IF Abs(i - j) <= bw THEN calculateDistance(s1[i + 1], s2[j + 1], met)
        ELSE Inf]]

\* lines 107-109
RECURSIVE FillFirstRow(_, _, _, _, _)
FillFirstRow(cm, ld, j, m, bw) ==
    IF j < m /\ j <= bw
    THEN FillFirstRow([cm EXCEPT ![0][j] = Plus(cm[0][j - 1], ld[0][j])], ld, j + 1, m, bw)
    ELSE cm

\* FillFirstColumn with the bound i < band_width instead of i <= band_width
RECURSIVE FillFirstColumnShort(_, _, _, _, _)
FillFirstColumnShort(cm, ld, i, n, bw) ==
    IF i < n /\ i < bw
    THEN FillFirstColumnShort([cm EXCEPT ![i][0] = Plus(cm[i - 1][0], ld[i][0])], ld, i + 1, n, bw)
    ELSE cm

\* lines 112-114
RECURSIVE FillFirstColumn(_, _, _, _, _)
FillFirstColumn(cm, ld, i, n, bw) ==
    IF i < n /\ i <= bw
    THEN FillFirstColumn([cm EXCEPT ![i][0] = Plus(cm[i - 1][0], ld[i][0])], ld, i + 1, n, bw)
    ELSE cm

\* lines 126-140: one cell of the body
BodyCell(cm, ld, i, j) ==
    LET cost == ld[i][j]
        p0 == Inf
        p1 == IF i > 0 /\ j > 0 THEN Min2(p0, cm[i - 1][j - 1]) ELSE p0
        p2 == IF i > 0 THEN Min2(p1, cm[i - 1][j]) ELSE p1
        min_prev == IF j > 0 THEN Min2(p2, cm[i][j - 1]) ELSE p2
    IN Plus(cost, min_prev)

\* lines 121-141: the inner loop over j
RECURSIVE FillBodyRow(_, _, _, _, _)
FillBodyRow(cm, ld, i, j, j_end) ==
    IF j < j_end
    THEN IF ld[i][j] = Inf
         THEN FillBodyRow(cm, ld, i, j + 1, j_end)
         ELSE FillBodyRow([cm EXCEPT ![i][j] = BodyCell(cm, ld, i, j)], ld, i, j + 1, j_end)
    ELSE cm

\* FillBody with j_start = max(1, i - band_width + 1), one column short
RECURSIVE FillBodyNarrow(_, _, _, _, _, _)
FillBodyNarrow(cm, ld, i, n, m, bw) ==
    IF i < n
    THEN LET j_start == Max2(1, i - bw + 1)
             j_end == Min2(m, i + bw + 1)
         IN FillBodyNarrow(FillBodyRow(cm, ld, i, j_start, j_end), ld, i + 1, n, m, bw)
    ELSE cm

\* lines 117-142: the outer loop over i
RECURSIVE FillBody(_, _, _, _, _, _)
FillBody(cm, ld, i, n, m, bw) ==
    IF i < n
    THEN LET j_start == Max2(1, i - bw)
             j_end == Min2(m, i + bw + 1)
         IN FillBody(FillBodyRow(cm, ld, i, j_start, j_end), ld, i + 1, n, m, bw)
    ELSE cm

\* lines 89-142: the filled cost matrix
CostMatrix(s1, s2, band, met) ==
    LET n == Len(s1)
        m == Len(s2)
        bw == EffectiveBand(n, m, band)
        ld == LocalDistances(s1, s2, bw, met)
        c0 == [i \in 0..(n - 1) |-> [j \in 0..(m - 1) |-> Inf]]
        c1 == [c0 EXCEPT ![0][0] = ld[0][0]]
        c2 == FillFirstRow(c1, ld, 1, m, bw)
        c3 == FillFirstColumn(c2, ld, 1, n, bw)
    IN FillBody(c3, ld, 1, n, m, bw)

\* BacktrackLoop with strict comparisons, so that a tie goes to the left cell
RECURSIVE BacktrackLoopStrict(_, _, _, _)
BacktrackLoopStrict(cm, i, j, path) ==
    IF i > 0 \/ j > 0
    THEN LET p == Append(path, <<i, j>>)
         IN IF i = 0 THEN BacktrackLoopStrict(cm, i, j - 1, p)
            ELSE IF j = 0 THEN BacktrackLoopStrict(cm, i - 1, j, p)
            ELSE LET diag == cm[i - 1][j - 1]
                     up == cm[i - 1][j]
                     left == cm[i][j - 1]
                 IN IF diag < up /\ diag < left THEN BacktrackLoopStrict(cm, i - 1, j - 1, p)
                    ELSE IF up < left THEN BacktrackLoopStrict(cm, i - 1, j, p)
                    ELSE BacktrackLoopStrict(cm, i, j - 1, p)
    ELSE path

\* the loop stepping diagonally from every interior cell, whatever the costs
RECURSIVE BacktrackLoopDiagonal(_, _, _, _)
BacktrackLoopDiagonal(cm, i, j, path) ==
    IF i > 0 \/ j > 0
    THEN IF i = 0 THEN BacktrackLoopDiagonal(cm, i, j - 1, Append(path, <<i, j>>))
         ELSE IF j = 0 THEN BacktrackLoopDiagonal(cm, i - 1, j, Append(path, <<i, j>>))
         ELSE BacktrackLoopDiagonal(cm, i - 1, j - 1, Append(path, <<i, j>>))
    ELSE path

\* lines 154-174: the backtracking loop; path is built from the corner
RECURSIVE BacktrackLoop(_, _, _, _)
BacktrackLoop(cm, i, j, path) ==
    IF i > 0 \/ j > 0
    THEN LET p == Append(path, <<i, j>>)
         IN IF i = 0 THEN BacktrackLoop(cm, i, j - 1, p)
            ELSE IF j = 0 THEN BacktrackLoop(cm, i - 1, j, p)
            ELSE LET diag == cm[i - 1][j - 1]
                     up == cm[i - 1][j]
                     left == cm[i][j - 1]
                 IN IF diag <= up /\ diag <= left THEN BacktrackLoop(cm, i - 1, j - 1, p)
                    ELSE IF up <= left THEN BacktrackLoop(cm, i - 1, j, p)
                    ELSE BacktrackLoop(cm, i, j - 1, p)
    ELSE path

\* std::reverse
Reverse(s) == [k \in 1..Len(s) |-> s[Len(s) + 1 - k]]

\* Backtrack without the final push_back of (0,0)
BacktrackNoOrigin(cm, n, m) ==
    Reverse(BacktrackLoop(cm, n - 1, m - 1, <<>>))

\* lines 148-179
Backtrack(cm, n, m) ==
    Reverse(Append(BacktrackLoop(cm, n - 1, m - 1, <<>>), <<0, 0>>))

\* lines 70-182
computeDTW(s1, s2, band, met, rp) ==
    LET n == Len(s1)
        m == Len(s2)
    IN IF n = 0 \/ m = 0
       THEN [distance |-> Inf, path |-> <<>>, cost_matrix |-> <<>>]
       ELSE LET cm == CostMatrix(s1, s2, band, met)
                dist == cm[n - 1][m - 1]
            IN [distance |-> dist,
                path |-> IF rp /\ dist # Inf THEN Backtrack(cm, n, m) ELSE <<>>,
                cost_matrix |-> cm]

----------------------------------------------------------------------------
(* hmm.cpp: log-domain values *)

RECURSIVE Pow10(_)
Pow10(e) == IF e = 0 THEN 1 ELSE 10 * Pow10(e - 1)

\* log(num / 10^exp) in lowest terms
RECURSIVE Strip(_, _)
Strip(num, exp) ==
    IF exp > 0 /\ num % 10 = 0 THEN Strip(num \div 10, exp - 1)
    ELSE [z |-> 0, num |-> num, exp |-> exp]

\* line 10: const double LOG_ZERO = -1e30
LOG_ZERO == [z |-> 1, num |-> 0, exp |-> 0]

\* the double 0.0, log 1
LogOne == [z |-> 0, num |-> 1, exp |-> 0]

\* log(prob), prob > 0 counted in tenths
Log(prob) == Strip(prob, 1)

\* a + b on doubles
Add(a, b) ==
    IF a.z + b.z > 0 THEN [z |-> a.z + b.z, num |-> 0, exp |-> 0]
    ELSE Strip(a.num * b.num, a.exp + b.exp)

\* a > b on doubles
Greater(a, b) ==
    IF a.z > 0 \/ b.z > 0 THEN a.z < b.z
    ELSE LET e == Max2(a.exp, b.exp)
         IN a.num * Pow10(e - a.exp) > b.num * Pow10(e - b.exp)

\* *std::max_element over the values lv[from..Len(lv)], best so far m
RECURSIVE MaxElementFrom(_, _, _)
MaxElementFrom(lv, k, m) ==
    IF k > Len(lv) THEN m
    ELSE MaxElementFrom(lv, k + 1, IF Greater(lv[k], m) THEN lv[k] ELSE m)

MaxElement(lv) == MaxElementFrom(lv, 2, lv[1])

\* the sum of the probabilities of the finite values of lv, over 10^e
RECURSIVE FiniteSum(_, _, _)
FiniteSum(lv, k, e) ==
    IF k = 0 THEN 0
    ELSE FiniteSum(lv, k - 1, e)
           + (IF lv[k].z = 0 THEN lv[k].num * Pow10(e - lv[k].exp) ELSE 0)

RECURSIVE MaxExp(_, _)
MaxExp(lv, k) ==
    IF k = 0 THEN 0
    ELSE Max2(MaxExp(lv, k - 1), IF lv[k].z = 0 THEN lv[k].exp ELSE 0)

\* lines 13-27.  With max_val finite, max_val + log(sum of exp(val - max_val))
\* is the log of the sum of the probabilities of the finite values: a value
\* -z * 1e30 with z >= 2 passes the test val != LOG_ZERO and adds
\* exp(-z * 1e30 - max_val) = 0.  With max_val = -z * 1e30, z >= 2, every value
\* is such a multiple, the values equal to max_val add exp(0) = 1 each and
\* the others 0, and max_val absorbs the log of that count.
log_sum_exp(log_values) ==
    IF Len(log_values) = 0 THEN LOG_ZERO
    ELSE LET max_val == MaxElement(log_values)
         IN IF max_val = LOG_ZERO THEN LOG_ZERO
            ELSE IF max_val.z = 0
                 THEN LET e == MaxExp(log_values, Len(log_values))
                      IN Strip(FiniteSum(log_values, Len(log_values), e), e)
                 ELSE max_val

----------------------------------------------------------------------------
(* hmm.cpp: class HMM *)

States == 0..(num_states - 1)
Symbols == 0..(num_observations - 1)

\* lines 38-42
HMMConstruct(states, obs) ==
    /\ num_states = states
    /\ num_observations = obs
    /\ transition_probs = [i \in 0..(states - 1) |-> [j \in 0..(states - 1) |-> LOG_ZERO]]
    /\ emission_probs = [i \in 0..(states - 1) |-> [o \in 0..(obs - 1) |-> LOG_ZERO]]
    /\ initial_probs = [i \in 0..(states - 1) |-> LOG_ZERO]

\* a member function is called when the caller has taken the previous result
Ready == op = "ready"

NoReturn ==
    /\ observations' = <<>>
    /\ ret_path' = <<>>
    /\ ret_logp' = LOG_ZERO
    /\ oob_read' = FALSE

\* operator[] with a negative index converts it to a huge size_t: the store
\* is out of bounds of the vector's buffer, which is undefined behaviour.  It
\* lands outside the three tables, or in a cell of one of them.
OutOfBoundsStore(prob) ==
    \/ /\ stray' = TRUE
       /\ UNCHANGED tables
    \/ /\ \E i \in States, j \in States :
            transition_probs' = [transition_probs EXCEPT ![i][j] = Log(prob)]
       /\ UNCHANGED <<emission_probs, initial_probs, stray>>
    \/ /\ \E i \in States, o \in Symbols :
            emission_probs' = [emission_probs EXCEPT ![i][o] = Log(prob)]
       /\ UNCHANGED <<transition_probs, initial_probs, stray>>
    \/ /\ \E i \in States : initial_probs' = [initial_probs EXCEPT ![i] = Log(prob)]
       /\ UNCHANGED <<transition_probs, emission_probs, stray>>

\* lines 45-49
setTransitionProb(from_state, to_state, prob) ==
    /\ Ready
    /\ op' = "setTransitionProb"
    /\ args' = <<from_state, to_state, prob>>
    /\ NoReturn
    /\ UNCHANGED <<num_states, num_observations, ref>>
    /\ IF prob > 0 /\ from_state < num_states /\ to_state < num_states
       THEN IF from_state >= 0 /\ to_state >= 0
            THEN /\ transition_probs' =
                      [transition_probs EXCEPT ![from_state][to_state] = Log(prob)]
                 /\ UNCHANGED <<emission_probs, initial_probs, stray>>
            ELSE OutOfBoundsStore(prob)
       ELSE UNCHANGED <<tables, stray>>

\* lines 52-56
setEmissionProb(state, observation, prob) ==
    /\ Ready
    /\ op' = "setEmissionProb"
    /\ args' = <<state, observation, prob>>
    /\ NoReturn
    /\ UNCHANGED <<num_states, num_observations, ref>>
    /\ IF prob > 0 /\ state < num_states /\ observation < num_observations
       THEN IF state >= 0 /\ observation >= 0
            THEN /\ emission_probs' =
                      [emission_probs EXCEPT ![state][observation] = Log(prob)]
                 /\ UNCHANGED <<transition_probs, initial_probs, stray>>
            ELSE OutOfBoundsStore(prob)
       ELSE UNCHANGED <<tables, stray>>

\* lines 59-63
setInitialProb(state, prob) ==
    /\ Ready
    /\ op' = "setInitialProb"
    /\ args' = <<state, prob>>
    /\ NoReturn
    /\ UNCHANGED <<num_states, num_observations, ref>>
    /\ IF prob > 0 /\ state < num_states
       THEN IF state >= 0
            THEN /\ initial_probs' = [initial_probs EXCEPT ![state] = Log(prob)]
                 /\ UNCHANGED <<transition_probs, emission_probs, stray>>
            ELSE OutOfBoundsStore(prob)
       ELSE UNCHANGED <<tables, stray>>

----------------------------------------------------------------------------
(* hmm.cpp: HMM::viterbi.  obs[t+1] here is observations[t] of the source.  *)
(* A column of a table is a sequence, the cell of state s at index s+1, and *)
(* a table is the sequence of its columns, column t at index t+1.           *)

\* the sequence <<f[0], ..., f[n-1]>>
RECURSIVE Cells(_, _)
Cells(f, n) == IF n = 0 THEN <<>> ELSE Append(Cells(f, n - 1), f[n - 1])

AllLogZero == Cells([s \in States |-> LOG_ZERO], num_states)

\* lines 75-79, and lines 135-139 of forward
FirstColumn(obs) ==
    Cells([s \in States |->
             IF obs[1] < num_observations
             THEN Add(initial_probs[s], emission_probs[s][obs[1]])
             ELSE LOG_ZERO], num_states)

\* the scan with >= for >: on equal probabilities the latest state wins
RECURSIVE ScanPrevLast(_, _, _, _, _, _)
ScanPrevLast(vprev, s, o, prev_s, max_prob, best_prev_state) ==
    IF prev_s < num_states
    THEN LET prob == Add(Add(vprev[prev_s + 1], transition_probs[prev_s][s]),
                         emission_probs[s][o])
         IN IF ~Greater(max_prob, prob)
            THEN ScanPrevLast(vprev, s, o, prev_s + 1, prob, prev_s)
            ELSE ScanPrevLast(vprev, s, o, prev_s + 1, max_prob, best_prev_state)
    ELSE [max_prob |-> max_prob, best_prev_state |-> best_prev_state]

\* lines 89-98: the scan over prev_s, from prev_s on
RECURSIVE ScanPrev(_, _, _, _, _, _)
ScanPrev(vprev, s, o, prev_s, max_prob, best_prev_state) ==
    IF prev_s < num_states
    THEN LET prob == Add(Add(vprev[prev_s + 1], transition_probs[prev_s][s]),
                         emission_probs[s][o])
         IN IF Greater(prob, max_prob)
            THEN ScanPrev(vprev, s, o, prev_s + 1, prob, prev_s)
            ELSE ScanPrev(vprev, s, o, prev_s + 1, max_prob, best_prev_state)
    ELSE [max_prob |-> max_prob, best_prev_state |-> best_prev_state]

\* lines 83-102: column t of viterbi_table (max_prob) and of path
\* (best_prev_state), from column t-1 of viterbi_table
ViterbiColumn(vprev, o) ==
    IF o >= num_observations
    THEN Cells([s \in States |-> [max_prob |-> LOG_ZERO, best_prev_state |-> -1]],
               num_states)
    ELSE Cells([s \in States |-> ScanPrev(vprev, s, o, 0, LOG_ZERO, -1)], num_states)

MaxProbs(col) == Cells([s \in States |-> col[s + 1].max_prob], num_states)

\* lines 71-103: the columns t..T-1 appended to the columns 0..t-1
RECURSIVE ViterbiFill(_, _, _)
ViterbiFill(obs, t, cols) ==
    IF t < Len(obs)
    THEN ViterbiFill(obs, t + 1,
                     Append(cols, ViterbiColumn(MaxProbs(cols[t]), obs[t + 1])))
    ELSE cols

\* lines 75-79: column 0, path[0] left at -1
InitialColumn(first) ==
    Cells([s \in States |-> [max_prob |-> first[s + 1], best_prev_state |-> -1]],
          num_states)

ViterbiTable(obs) == ViterbiFill(obs, 1, <<InitialColumn(FirstColumn(obs))>>)

\* lines 109-116: the scan over the final column, from state s on
RECURSIVE BestFinal(_, _, _, _)
BestFinal(vlast, s, max_final_prob, best_final_state) ==
    IF s < num_states
    THEN IF Greater(vlast[s + 1].max_prob, max_final_prob)
         THEN BestFinal(vlast, s + 1, vlast[s + 1].max_prob, s)
         ELSE BestFinal(vlast, s + 1, max_final_prob, best_final_state)
    ELSE best_final_state

\* lines 119-122: best_path[0..T-1] given best_path[t+1..T-1] = known.
\* path[t+1][best_path[t+1]] with best_path[t+1] = -1 is a read out of the
\* bounds of the row, undefined behaviour: it yields the int garbage.
RECURSIVE BacktrackStates(_, _, _, _, _)
BacktrackStates(cols, t, known, garbage, oob) ==
    IF t < 0 THEN [path |-> known, oob |-> oob]
    ELSE IF known[1] \in States
         THEN BacktrackStates(cols, t - 1,
                              <<cols[t + 2][known[1] + 1].best_prev_state>> \o known,
                              garbage, oob)
         ELSE BacktrackStates(cols, t - 1, <<garbage>> \o known, garbage, TRUE)

\* lines 105-124: the best final state and the backtracking from it
BestPath(cols, garbage) ==
    BacktrackStates(cols, Len(cols) - 2,
                    <<BestFinal(cols[Len(cols)], 0, LOG_ZERO, 0)>>, garbage, FALSE)

\* lines 66-125
viterbi(obs, garbage) ==
    IF Len(obs) = 0 THEN [path |-> <<>>, oob |-> FALSE]
    ELSE BestPath(ViterbiTable(obs), garbage)

----------------------------------------------------------------------------
(* hmm.cpp: HMM::forward and HMM::backward *)

\* the column with the transition matrix read transposed
ForwardColumnTransposed(aprev, o) ==
    IF o >= num_observations THEN AllLogZero
    ELSE Cells([s \in States |->
                  Add(log_sum_exp(Cells([prev_s \in States |->
                                           Add(aprev[prev_s + 1],
                                               transition_probs[s][prev_s])],
                                        num_states)),
                      emission_probs[s][o])], num_states)

\* lines 145-154: column t of alpha from column t-1
ForwardColumn(aprev, o) ==
    IF o >= num_observations THEN AllLogZero
    ELSE Cells([s \in States |->
                  Add(log_sum_exp(Cells([prev_s \in States |->
                                           Add(aprev[prev_s + 1],
                                               transition_probs[prev_s][s])],
                                        num_states)),
                      emission_probs[s][o])], num_states)

\* lines 132-155: column T-1 of alpha, from column t-1
RECURSIVE Alpha(_, _, _)
Alpha(obs, t, aprev) ==
    IF t < Len(obs) THEN Alpha(obs, t + 1, ForwardColumn(aprev, obs[t + 1]))
    ELSE aprev

\* lines 128-164
forward(obs) ==
    LET T == Len(obs)
    IN IF T = 0 THEN LOG_ZERO
       ELSE log_sum_exp(Alpha(obs, 1, FirstColumn(obs)))

\* lines 180-193: column t of beta from column t+1; o is observations[t+1]
BackwardColumn(bnext, o) ==
    IF o >= num_observations THEN AllLogZero
    ELSE Cells([s \in States |->
                  log_sum_exp(Cells([next_s \in States |->
                                       Add(Add(transition_probs[s][next_s],
                                               emission_probs[next_s][o]),
                                           bnext[next_s + 1])],
                                    num_states))], num_states)

\* lines 171-194: column 0 of beta, from column t+1
RECURSIVE Beta(_, _, _)
Beta(obs, t, bnext) ==
    IF t >= 0 THEN Beta(obs, t - 1, BackwardColumn(bnext, obs[t + 2]))
    ELSE bnext

\* lines 167-208
backward(obs) ==
    LET T == Len(obs)
    IN IF T = 0 THEN LOG_ZERO
       ELSE LET beta0 == Beta(obs, T - 2, Cells([s \in States |-> LogOne], num_states))
                initial_backward_probs ==
                    IF obs[1] < num_observations
                    THEN Cells([s \in States |->
                                  Add(Add(initial_probs[s], emission_probs[s][obs[1]]),
                                      beta0[s + 1])], num_states)
                    ELSE <<>>
            IN log_sum_exp(initial_backward_probs)

----------------------------------------------------------------------------
(* The HMM specifications.  In HMMSpec a caller configures an HMM from one  *)
(* of two parameter tables, cell by cell in any order, and decodes          *)
(* observation sequences at any point.  In SetterSpec the setters are       *)
(* called with every kind of argument.                                      *)

MaxT == 3          \* longest observation sequence handed to a decoder

\* the two-state model of scenario S6, in tenths
S6Model ==
    [pi |-> <<6, 4>>,
     A |-> << <<7, 3>>, <<4, 6>> >>,
     B |-> << <<5, 5>>, <<1, 9>> >>]

\* a two-state, one-symbol model whose state sequences all tie
TieModel ==
    [pi |-> <<5, 5>>,
     A |-> << <<5, 5>>, <<5, 5>> >>,
     B |-> << <<5>>, <<5>> >>]

RefModels == {S6Model, TieModel}

\* the symbols handed to a decoder: both are in the vocabulary of a
\* two-symbol HMM, and 1 is outside the vocabulary of a one-symbol HMM
ObsSymbols == {0, 1}

ObsSeqs == UNION {[1..k -> ObsSymbols] : k \in 0..MaxT}

\* what an out-of-bounds read of an int may yield
Garbage == -1..num_states

\* processAudioFrames has not been called
FramesIdle ==
    /\ audio = <<>> /\ frame_length = 1 /\ hop_size = 1 /\ frame_i = 0
    /\ features = <<>> /\ frames_pc = "idle" /\ frames_oob = FALSE

\* the HMM is used as an object and not through the global pointer
GlobalIdle == global_hmm = "null" /\ instances = 0

DTWIdle ==
    /\ sequence1 = <<>> /\ sequence2 = <<>> /\ band_width = -1
    /\ metric = "EUCLIDEAN" /\ return_path = TRUE /\ dtw_pc = "idle"
    /\ result = [distance |-> Inf, path |-> <<>>, cost_matrix |-> <<>>]

HMMFresh ==
    /\ stray = FALSE
    /\ op = "ready"
    /\ args = <<>>
    /\ observations = <<>>
    /\ ret_path = <<>>
    /\ ret_logp = LOG_ZERO
    /\ oob_read = FALSE

HMMIdle ==
    /\ HMMConstruct(1, 1)
    /\ ref = TieModel
    /\ HMMFresh

HMMInit ==
    /\ DTWIdle
    /\ FramesIdle
    /\ GlobalIdle
    /\ ref \in RefModels
    /\ HMMConstruct(Len(ref.pi), Len(ref.B[1]))
    /\ HMMFresh

ConfigureInitial ==
    \E s \in States : setInitialProb(s, ref.pi[s + 1]) /\ UNCHANGED <<dtw_vars, frame_vars, global_vars>>

ConfigureTransition ==
    \E i \in States, j \in States :
        setTransitionProb(i, j, ref.A[i + 1][j + 1]) /\ UNCHANGED <<dtw_vars, frame_vars, global_vars>>

ConfigureEmission ==
    \E s \in States, o \in Symbols :
        setEmissionProb(s, o, ref.B[s + 1][o + 1]) /\ UNCHANGED <<dtw_vars, frame_vars, global_vars>>

Decoded(name, obs) ==
    /\ Ready
    /\ op' = name
    /\ args' = <<>>
    /\ observations' = obs
    /\ UNCHANGED <<num_states, num_observations, tables, stray, ref, dtw_vars, frame_vars,
                 global_vars>>

ViterbiReturns(obs, r) ==
    /\ Decoded("viterbi", obs)
    /\ ret_path' = r.path
    /\ oob_read' = r.oob
    /\ ret_logp' = LOG_ZERO

CallViterbi ==
    \E obs \in ObsSeqs, garbage \in Garbage :
        ViterbiReturns(obs, viterbi(obs, garbage))

CallForward ==
    \E obs \in ObsSeqs :
        /\ Decoded("forward", obs)
        /\ ret_logp' = forward(obs)
        /\ ret_path' = <<>>
        /\ oob_read' = FALSE

CallBackward ==
    \E obs \in ObsSeqs :
        /\ Decoded("backward", obs)
        /\ ret_logp' = backward(obs)
        /\ ret_path' = <<>>
        /\ oob_read' = FALSE

\* the call has returned and the caller goes on to its next call
Return ==
    /\ ~Ready
    /\ op' = "ready"
    /\ args' = <<>>
    /\ NoReturn
    /\ UNCHANGED <<num_states, num_observations, tables, stray, ref, dtw_vars, frame_vars,
                 global_vars>>

HMMNext ==
    \/ ConfigureInitial
    \/ ConfigureTransition
    \/ ConfigureEmission
    \/ CallViterbi
    \/ CallForward
    \/ CallBackward
    \/ Return

HMMSpec == HMMInit /\ [][HMMNext]_vars

\* the shapes (N, K) of the HMMs the setters are exercised on
Shapes == {<<1, 1>>, <<2, 1>>, <<1, 2>>}

\* setter arguments: indices from -1 to one past the end, and probabilities
\* below, at and above zero
SetterProbs == {-5, 0, 5}

SetterInit ==
    /\ DTWIdle
    /\ FramesIdle
    /\ GlobalIdle
    /\ ref = TieModel
    /\ \E sh \in Shapes : HMMConstruct(sh[1], sh[2])
    /\ HMMFresh

CallSetInitial ==
    \E s \in -1..num_states, p \in SetterProbs :
        setInitialProb(s, p) /\ UNCHANGED <<dtw_vars, frame_vars, global_vars>>

CallSetTransition ==
    \E i \in -1..num_states, j \in -1..num_states, p \in SetterProbs :
        setTransitionProb(i, j, p) /\ UNCHANGED <<dtw_vars, frame_vars, global_vars>>

CallSetEmission ==
    \E s \in -1..num_states, o \in -1..num_observations, p \in SetterProbs :
        setEmissionProb(s, o, p) /\ UNCHANGED <<dtw_vars, frame_vars, global_vars>>

SetterNext == CallSetInitial \/ CallSetTransition \/ CallSetEmission \/ Return

SetterSpec == SetterInit /\ [][SetterNext]_vars

----------------------------------------------------------------------------
(* The DTW specification: the arguments are drawn from bounded sets, and   *)
(* one call of computeDTW is applied to them.                              *)

FeatureSeqs(max) == UNION {[1..k -> Vectors] : k \in 0..max}
BandWidths == -1..MaxBand
NoResult == [distance |-> Inf, path |-> <<>>, cost_matrix |-> <<>>]

DTWInit ==
    /\ sequence1 \in FeatureSeqs(MaxLen1)
    /\ sequence2 \in FeatureSeqs(MaxLen2)
    /\ band_width \in BandWidths
    /\ metric = "EUCLIDEAN"
    /\ return_path = TRUE
    /\ dtw_pc = "call"
    /\ result = NoResult
    /\ HMMIdle
    /\ FramesIdle
    /\ GlobalIdle

DTWCall(met, rp) ==
    /\ dtw_pc = "call"
    /\ metric' = met
    /\ return_path' = rp
    /\ result' = computeDTW(sequence1, sequence2, band_width, met, rp)
    /\ dtw_pc' = "done"
    /\ UNCHANGED <<sequence1, sequence2, band_width, hmm_vars, frame_vars, global_vars>>

\* computeDTW(sequence1, sequence2, band_width, met): return_path defaults to
\* true (line 74), and dtw_align passes true (line 230)
DTWCallWithPath == \E met \in Metrics : DTWCall(met, TRUE)

\* computeDTW(seq1, seq2, band_width, EUCLIDEAN, false), as dtw_distance calls
\* it (line 203)
DTWCallDistanceOnly == DTWCall("EUCLIDEAN", FALSE)

DTWNext == DTWCallWithPath \/ DTWCallDistanceOnly

DTWSpec == DTWInit /\ [][DTWNext]_vars

----------------------------------------------------------------------------
(* Reference notions for the DTW claims, stated without the cost matrix.   *)

n1 == Len(sequence1)
n2 == Len(sequence2)
DTWDone == dtw_pc = "done"
NonEmptyCall == n1 > 0 /\ n2 > 0

\* every monotone path from (i,j) to the corner (n-1,m-1), as a sequence of cells
RECURSIVE PathsFrom(_, _, _, _)
PathsFrom(i, j, n, m) ==
    IF i = n - 1 /\ j = m - 1 THEN {<< <<i, j>> >>}
    ELSE LET Ext(S) == {<< <<i, j>> >> \o p : p \in S}
         IN (IF i < n - 1 /\ j < m - 1 THEN Ext(PathsFrom(i + 1, j + 1, n, m)) ELSE {})
            \cup (IF i < n - 1 THEN Ext(PathsFrom(i + 1, j, n, m)) ELSE {})
            \cup (IF j < m - 1 THEN Ext(PathsFrom(i, j + 1, n, m)) ELSE {})

\* the monotone paths of every matrix shape the model reaches
MonotonePaths == [n \in 1..MaxLen1 |-> [m \in 1..MaxLen2 |-> PathsFrom(0, 0, n, m)]]

\* the band the claim speaks of: band_width <= 0 means max(n, m)
ClaimBand == IF band_width <= 0 THEN Max2(n1, n2) ELSE band_width

AdmissiblePaths ==
    {p \in MonotonePaths[n1][n2] : \A k \in 1..Len(p) : Abs(p[k][1] - p[k][2]) <= ClaimBand}

\* d(i,j) of the claim, for every cell
LocalDistance ==
    [i \in 0..(n1 - 1) |-> [j \in 0..(n2 - 1) |->
        calculateDistance(sequence1[i + 1], sequence2[j + 1], metric)]]

PathCost(d, p) == SumTo([k \in 1..Len(p) |-> d[p[k][1]][p[k][2]]], Len(p))

EqualDimensions ==
    \A a \in 1..n1, b \in 1..n2 : Len(sequence1[a]) = Len(sequence2[b])

IsStep(a, b) ==
    <<b[1] - a[1], b[2] - a[2]>> \in {<<1, 1>>, <<1, 0>>, <<0, 1>>}

Diagonal(n) == [k \in 1..n |-> <<k - 1, k - 1>>]

\* C1: for non-empty sequences of equal-dimension vectors, the distance
\* computeDTW returns is the minimum, over the monotone paths from (0,0) to
\* (n-1,m-1) that stay inside the band, of the sum of local distances along
\* the path, and it is +infinity exactly when there is no such path.
C1_MinPathCost ==
    (DTWDone /\ NonEmptyCall /\ EqualDimensions) =>
        LET paths == AdmissiblePaths
            d == LocalDistance
            costs == {PathCost(d, p) : p \in paths}
        IN /\ (paths = {}) <=> (result.distance = Inf)
           /\ paths # {} =>
                /\ result.distance \in costs
                /\ \A c \in costs : result.distance <= c

\* a call where the band cuts a cell off the 3 x 2 matrix and the cheapest
\* admissible path is neither the only one nor the one along the diagonal
C1_Witness ==
    /\ DTWDone /\ n1 = 3 /\ n2 = 2 /\ band_width = 1
    /\ result.distance # Inf /\ result.distance > 0
    /\ \E p \in AdmissiblePaths : PathCost(LocalDistance, p) > result.distance
    /\ result.distance < LocalDistance[0][0] + LocalDistance[1][1] + LocalDistance[2][1]

\* C2: with return_path = true and a finite distance, the returned path
\* begins at (0,0), ends at (n-1,m-1), moves by one of the steps (+1,+1),
\* (+1,0), (0,+1) between consecutive entries, and stays inside the matrix.
C2_PathShape ==
    (DTWDone /\ return_path /\ NonEmptyCall /\ result.distance # Inf) =>
        LET p == result.path
        IN /\ Len(p) >= 1
           /\ p[1] = <<0, 0>>
           /\ p[Len(p)] = <<n1 - 1, n2 - 1>>
           /\ \A k \in 1..(Len(p) - 1) : IsStep(p[k], p[k + 1])
           /\ \A k \in 1..Len(p) : p[k][1] \in 0..(n1 - 1) /\ p[k][2] \in 0..(n2 - 1)

\* a returned path that takes a vertical and then a diagonal step
C2_Witness ==
    /\ DTWDone /\ return_path /\ result.distance # Inf
    /\ result.distance > 0
    /\ result.path = << <<0, 0>>, <<1, 0>>, <<2, 1>> >>

\* C3, as claimed: under every metric computeDTW(s, s) returns distance 0
\* and the strict diagonal.
C3_SelfDistanceAnyMetric ==
    (DTWDone /\ return_path /\ n1 > 0 /\ sequence1 = sequence2) =>
        /\ result.distance = 0
        /\ result.path = Diagonal(n1)

\* C3, amended: under the EUCLIDEAN and MANHATTAN metrics computeDTW(s, s)
\* returns distance 0 and the strict diagonal, for every band_width.
C3_SelfDistance ==
    (DTWDone /\ return_path /\ n1 > 0 /\ sequence1 = sequence2
       /\ metric \in {"EUCLIDEAN", "MANHATTAN"}) =>
        /\ result.distance = 0
        /\ result.path = Diagonal(n1)

\* a self-alignment of a frame repeated twice, where the diagonal ties with
\* the paths around it
C3_Witness ==
    /\ DTWDone /\ return_path /\ sequence1 = sequence2 /\ n1 = 2
    /\ sequence1[1] = sequence1[2]
    /\ metric = "MANHATTAN"
    /\ result.cost_matrix[0][1] = 0 /\ result.cost_matrix[1][0] = 0
    /\ result.path = Diagonal(2)

\* C4: under EUCLIDEAN and MANHATTAN the distance does not depend on the
\* order of the two sequences, +infinity included.
C4_Symmetry ==
    (DTWDone /\ metric \in {"EUCLIDEAN", "MANHATTAN"}) =>
        result.distance =
            computeDTW(sequence2, sequence1, band_width, metric, return_path).distance

\* sequences of different lengths and a band that makes the corner unreachable
\* from one edge, with a finite non-zero distance
C4_Witness ==
    /\ DTWDone /\ metric = "EUCLIDEAN" /\ band_width = 1
    /\ n1 = 3 /\ n2 = 2
    /\ result.distance # Inf /\ result.distance > 0

----------------------------------------------------------------------------
(* Claims about the HMM *)

SetterNames == {"setInitialProb", "setTransitionProb", "setEmissionProb"}

\* the three tables after the one addressed cell has taken log p
StoredAt(name, a) ==
    CASE name = "setInitialProb" ->
           <<transition_probs, emission_probs,
             [initial_probs EXCEPT ![a[1]] = Log(a[2])]>>
      [] name = "setTransitionProb" ->
           <<[transition_probs EXCEPT ![a[1]][a[2]] = Log(a[3])],
             emission_probs, initial_probs>>
      [] name = "setEmissionProb" ->
           <<transition_probs,
             [emission_probs EXCEPT ![a[1]][a[2]] = Log(a[3])], initial_probs>>

\* p > 0 and every index in range
Accepted(name, a) ==
    CASE name = "setInitialProb" -> a[2] > 0 /\ a[1] \in States
      [] name = "setTransitionProb" -> a[3] > 0 /\ a[1] \in States /\ a[2] \in States
      [] name = "setEmissionProb" -> a[3] > 0 /\ a[1] \in States /\ a[2] \in Symbols

\* C5: a setter call with p <= 0 or with an index out of range leaves the
\* three tables unchanged and touches no memory outside them; a call with
\* p > 0 and indices in range changes exactly the addressed cell, to log p.
C5_SetterContract ==
    [][op' \in SetterNames =>
         /\ stray' = stray
         /\ tables' = IF Accepted(op', args') THEN StoredAt(op', args') ELSE tables]_vars

Finite(v) == v.z = 0

InVocabulary(obs) == \A t \in 1..Len(obs) : obs[t] \in Symbols

StateSeqs(T) == [1..T -> States]

\* pi[q0] + B[q0][obs0] + sum over t of (A[q(t-1)][q(t)] + B[q(t)][obs(t)]),
\* up to position t
RECURSIVE JointUpTo(_, _, _)
JointUpTo(q, obs, t) ==
    IF t = 1 THEN Add(initial_probs[q[1]], emission_probs[q[1]][obs[1]])
    ELSE Add(Add(JointUpTo(q, obs, t - 1), transition_probs[q[t - 1]][q[t]]),
             emission_probs[q[t]][obs[t]])

Joint(q, obs) == JointUpTo(q, obs, Len(obs))

\* p comes before q when, at the last position where they differ, p has the
\* smaller state
EarlierFromTheEnd(p, q) ==
    \E k \in 1..Len(p) :
        /\ p[k] < q[k]
        /\ \A j \in (k + 1)..Len(p) : p[j] = q[j]

\* the HMM holds exactly the parameters of model m
Configured(m) ==
    /\ num_states = Len(m.pi)
    /\ num_observations = Len(m.B[1])
    /\ initial_probs = [s \in States |-> Log(m.pi[s + 1])]
    /\ transition_probs = [i \in States |-> [j \in States |-> Log(m.A[i + 1][j + 1])]]
    /\ emission_probs = [s \in States |-> [o \in Symbols |-> Log(m.B[s + 1][o + 1])]]

S6Obs == <<0, 1, 1>>

\* C6: for a non-empty sequence of in-vocabulary symbols that has a state
\* sequence of non-zero probability, viterbi returns a state sequence of
\* length T whose joint log-probability is the maximum over all N^T state
\* sequences, and among the sequences that reach the maximum it returns the
\* one with the earliest final state, then the earliest predecessor at each
\* step back; for the S6 model and obs = [0,1,1] it returns [0,1,1].
C6_ViterbiOptimal ==
    /\ (/\ op = "viterbi"
        /\ observations # <<>>
        /\ InVocabulary(observations)
        /\ \E q \in StateSeqs(Len(observations)) : Finite(Joint(q, observations)))
       => /\ ~oob_read
          /\ ret_path \in StateSeqs(Len(observations))
          /\ Finite(Joint(ret_path, observations))
          /\ \A q \in StateSeqs(Len(observations)) :
                /\ ~Greater(Joint(q, observations), Joint(ret_path, observations))
                /\ (q # ret_path
                    /\ Joint(q, observations) = Joint(ret_path, observations))
                   => EarlierFromTheEnd(ret_path, q)
    /\ (op = "viterbi" /\ Configured(S6Model) /\ observations = S6Obs)
       => ret_path = <<0, 1, 1>>

C6_Witness ==
    /\ op = "viterbi"
    /\ Configured(S6Model)
    /\ observations = S6Obs
    /\ ret_path = <<0, 1, 1>>
    /\ \E q \in StateSeqs(3) :
          Greater(Joint(ret_path, observations), Joint(q, observations))

\* the probability of the value v, in units of 10^-e
Mass(v, e) == IF Finite(v) THEN v.num * Pow10(e - v.exp) ELSE 0

\* the sum over the state sequences in qs of the joint probability of the
\* sequence and obs, in units of 10^-(2T)
RECURSIVE TotalMass(_, _)
TotalMass(qs, obs) ==
    IF qs = {} THEN 0
    ELSE LET q == CHOOSE x \in qs : TRUE
         IN Mass(Joint(q, obs), 2 * Len(obs)) + TotalMass(qs \ {q}, obs)

\* the log of the sum over all state sequences of the joint probability
LogLikelihood(obs) ==
    LET total == IF InVocabulary(obs) THEN TotalMass(StateSeqs(Len(obs)), obs) ELSE 0
    IN IF total = 0 THEN LOG_ZERO ELSE Strip(total, 2 * Len(obs))

\* C7: for a non-empty observation sequence forward(obs) and backward(obs)
\* return the same log-likelihood, the log of the sum over all state
\* sequences of the joint probability of the sequence and the observations.
C7_ForwardBackwardAgree ==
    (op = "forward" /\ observations # <<>>)
    => /\ ret_logp = backward(observations)
       /\ ret_logp = LogLikelihood(observations)

\* C8: for an observation sequence that contains a symbol >= K, forward and
\* backward both return exactly LOG_ZERO, whatever parameters are set.
C8_OutOfVocabularyLogZero ==
    (/\ op \in {"forward", "backward"}
     /\ \E t \in 1..Len(observations) : observations[t] >= num_observations)
    => ret_logp = LOG_ZERO

\* LOG_ZERO, or the log of a strictly positive probability
Canonical(v) == v = LOG_ZERO \/ (Finite(v) /\ v.num > 0)

\* C9: no value other than LOG_ZERO or the log of a strictly positive
\* probability is stored in a cell of alpha or V or returned as a
\* likelihood, and log_sum_exp over a list with no possible term returns
\* LOG_ZERO.
C9_OnlyLogZeroOrFinite ==
    /\ op \in {"forward", "backward"} => Canonical(ret_logp)
    /\ (op = "forward" /\ observations # <<>>)
       => \A s \in States : Canonical(FirstColumn(observations)[s + 1])
    /\ (op = "viterbi" /\ observations # <<>>)
       => \A t \in 1..Len(observations) : \A s \in States :
             Canonical(ViterbiTable(observations)[t][s + 1].max_prob)
    /\ log_sum_exp(<<>>) = LOG_ZERO
    /\ log_sum_exp(AllLogZero) = LOG_ZERO

S6ForwardCall == op = "forward" /\ Configured(S6Model) /\ observations = S6Obs

\* C10 as stated: for the S6 model and obs = [0,1,1] forward returns the log
\* of a total probability of 0.0527, to four decimal places.
C10_S6ForwardAsStated ==
    S6ForwardCall
    => /\ Finite(ret_logp)
       /\ 526 * Pow10(ret_logp.exp) <= ret_logp.num * 10000
       /\ ret_logp.num * 10000 <= 528 * Pow10(ret_logp.exp)

\* C10: for the S6 model and obs = [0,1,1] forward returns the log of the
\* total probability 0.145984 of the observations, which is the sum over
\* all state sequences of the joint probability.
C10_S6Forward ==
    S6ForwardCall
    => /\ ret_logp = Strip(145984, 6)
       /\ ret_logp = LogLikelihood(observations)

C10_Witness == S6ForwardCall /\ Finite(ret_logp) /\ ret_logp.exp = 6

----------------------------------------------------------------------------
(* audio_processor.cpp: processAudioFrames.  One action is one iteration   *)
(* of the loop of lines 153-157, another is the exit from it.              *)

MaxAudio == 4       \* longest audio buffer
MaxFrameLen == 3    \* largest frame_length
MaxHop == 2         \* largest hop_size
MaxFeatures == 6    \* the vectors the heap has room for

Samples == {0, 1}
AudioBuffers == UNION {[1..k -> Samples] : k \in 0..MaxAudio}
FrameLengths == 1..MaxFrameLen
HopSizes == -1..MaxHop

\* lines 114-146: the MFCC vector is a function of the samples of the frame
\* (frame_length is the size of the frame); it is kept as that function's
\* argument
extractMFCC(audio_frame, len) == [mfcc_of |-> audio_frame, window |-> len]

\* line 153: i + frame_length <= audio.size() compares an int with a size_t,
\* so the int is converted to unsigned and a negative sum is larger than
\* every size
LoopCondition == frame_i + frame_length >= 0 /\ frame_i + frame_length <= Len(audio)

\* line 154: the copy of [audio.begin() + i, audio.begin() + i + frame_length).
\* With i < 0 the range starts before the buffer: reading it is undefined
\* behaviour, and the samples read there are arbitrary.
FramesAt(start) ==
    {f \in [1..frame_length -> Samples] :
        \A k \in 1..frame_length : start + k >= 1 => f[k] = audio[start + k]}

\* lines 153-157: one iteration.  push_back allocates; when the heap has no
\* room left the allocation fails and the call never returns.
FrameStep ==
    /\ frames_pc = "loop"
    /\ LoopCondition
    /\ IF Len(features) < MaxFeatures
       THEN /\ \E frame \in FramesAt(frame_i) :
                 features' = Append(features, extractMFCC(frame, frame_length))
            /\ frame_i' = frame_i + hop_size
            /\ frames_oob' = (frames_oob \/ frame_i < 0)
            /\ UNCHANGED frames_pc
       ELSE /\ frames_pc' = "exhausted"
            /\ UNCHANGED <<features, frame_i, frames_oob>>
    /\ UNCHANGED <<audio, frame_length, hop_size, dtw_vars, hmm_vars, global_vars>>

\* lines 153 and 159: the loop condition fails and features is returned
FramesReturn ==
    /\ frames_pc = "loop"
    /\ ~LoopCondition
    /\ frames_pc' = "done"
    /\ UNCHANGED <<audio, frame_length, hop_size, frame_i, features, frames_oob,
                   dtw_vars, hmm_vars, global_vars>>

FramesInit ==
    /\ audio \in AudioBuffers
    /\ frame_length \in FrameLengths
    /\ hop_size \in HopSizes
    /\ frame_i = 0
    /\ features = <<>>
    /\ frames_pc = "loop"
    /\ frames_oob = FALSE
    /\ DTWIdle
    /\ HMMIdle
    /\ GlobalIdle

FramesNext == FrameStep \/ FramesReturn

FramesSpec == FramesInit /\ [][FramesNext]_vars

----------------------------------------------------------------------------
(* Claim about processAudioFrames *)

\* floor((|audio| - L) / hop) + 1 when |audio| >= L, and 0 otherwise
FrameCount ==
    IF Len(audio) >= frame_length
    THEN (Len(audio) - frame_length) \div hop_size + 1
    ELSE 0

\* C11: for every audio buffer, frame length L >= 1 and hop,
\* processAudioFrames terminates, every vector it emits is computed from
\* samples of audio, and it emits one vector for each frame start
\* i = 0, hop, 2*hop, ... with i + L <= |audio|, in increasing order of i,
\* computed from audio[i .. i+L): for hop >= 1 that is
\* floor((|audio| - L)/hop) + 1 vectors when |audio| >= L and none otherwise.
C11_FramesEmitted ==
    /\ frames_pc # "exhausted"
    /\ ~frames_oob
    /\ (frames_pc = "done" /\ hop_size >= 1)
       => /\ Len(features) = FrameCount
          /\ \A k \in 1..Len(features) :
                features[k] =
                    extractMFCC(SubSeq(audio, (k - 1) * hop_size + 1,
                                       (k - 1) * hop_size + frame_length),
                                frame_length)

----------------------------------------------------------------------------
(* Claim about viterbi on sequences without a valid path *)

\* C12: for every non-empty observation sequence, out-of-vocabulary symbols
\* and zero probability included, viterbi returns exactly T entries, never
\* indexes the backpointer table with -1, returns only state indices in
\* 0..N-1, and where the backpointer of a returned state is -1 the positions
\* before it hold the default state 0.
C12_ViterbiTotal ==
    (op = "viterbi" /\ observations # <<>>)
    => /\ Len(ret_path) = Len(observations)
       /\ ~oob_read
       /\ \A k \in 1..Len(ret_path) : ret_path[k] \in States
       /\ \A t \in 2..Len(ret_path) :
             ViterbiTable(observations)[t][ret_path[t] + 1].best_prev_state = -1
             => \A k \in 1..(t - 1) : ret_path[k] = 0

----------------------------------------------------------------------------
(* Claim about the path computeDTW returns *)

\* the predecessor the backtracking takes from the interior cell (i, j):
\* the cheapest of diagonal, up and left, in that order on ties
ChosenPredecessor(c, i, j) ==
    IF c[i - 1][j - 1] <= c[i - 1][j] /\ c[i - 1][j - 1] <= c[i][j - 1]
    THEN <<i - 1, j - 1>>
    ELSE IF c[i - 1][j] <= c[i][j - 1] THEN <<i - 1, j>> ELSE <<i, j - 1>>

\* C13: a non-empty returned path realises the reported distance: the local
\* distances of its cells add up to result.distance, every cell on it has a
\* finite cost and lies within the band (band_width <= 0 meaning max(n, m)),
\* and the cell before each interior cell is a predecessor of minimum
\* accumulated cost, diagonal before up before left on ties.
C13_PathRealisesDistance ==
    (DTWDone /\ result.path # <<>>) =>
        LET p == result.path
            c == result.cost_matrix
        IN /\ PathCost(LocalDistance, p) = result.distance
           /\ \A k \in 1..Len(p) :
                 /\ c[p[k][1]][p[k][2]] # Inf
                 /\ Abs(p[k][1] - p[k][2]) <= ClaimBand
           /\ \A k \in 2..Len(p) :
                 (p[k][1] > 0 /\ p[k][2] > 0) =>
                    /\ p[k - 1] = ChosenPredecessor(c, p[k][1], p[k][2])
                    /\ c[p[k - 1][1]][p[k - 1][2]] =
                         Min2(c[p[k][1] - 1][p[k][2] - 1],
                              Min2(c[p[k][1] - 1][p[k][2]], c[p[k][1]][p[k][2] - 1]))

\* a returned path that leaves the interior cell (2,1) upwards, because up is
\* strictly cheaper than the diagonal, and then (1,1) diagonally on a tie
C13_Witness ==
    /\ DTWDone /\ n1 = 3 /\ n2 = 2
    /\ result.path = << <<0, 0>>, <<1, 1>>, <<2, 1>> >>
    /\ result.cost_matrix[1][1] < result.cost_matrix[1][0]
    /\ result.cost_matrix[0][0] = result.cost_matrix[0][1]
    /\ result.distance > 0

----------------------------------------------------------------------------
(* hmm.cpp: the global HMM instance and the functions exported to           *)
(* JavaScript (lines 211-274).  global_hmm is "null", "live" when it points *)
(* to the HMM object whose members the HMM variables hold, and "wild" when  *)
(* it is not null and points to no HMM object.  While no object exists the  *)
(* HMM variables are those of HMM(0, 0).  op records the member function an *)
(* exported setter or decoder forwards to.                                  *)

MaxInstances == 2   \* the HMM objects the heap has room for

\* -std::numeric_limits<double>::infinity(), the log of 0
NegInfinity == [z |-> 0, num |-> 0, exp |-> 0]

\* createHMM arguments: two shapes and a negative number of states
GlobalShapes == {<<1, 1>>, <<2, 1>>, <<-1, 1>>}
GlobalProbs == {0, 5}
GlobalObs == {<<>>, <<0>>, <<0, 1>>}

\* lines 38-42, as the step that constructs the object
Constructed(states, obs) ==
    /\ num_states' = states
    /\ num_observations' = obs
    /\ transition_probs' = [i \in 0..(states - 1) |-> [j \in 0..(states - 1) |-> LOG_ZERO]]
    /\ emission_probs' = [i \in 0..(states - 1) |-> [o \in 0..(obs - 1) |-> LOG_ZERO]]
    /\ initial_probs' = [i \in 0..(states - 1) |-> LOG_ZERO]

\* delete global_hmm, of the live object
Destroyed ==
    /\ num_states' = 0
    /\ num_observations' = 0
    /\ transition_probs' = <<>>
    /\ emission_probs' = <<>>
    /\ initial_probs' = <<>>

SameObject == UNCHANGED <<num_states, num_observations, tables>>

\* what delete global_hmm leaves of the count of objects
AfterDelete == IF global_hmm = "live" THEN instances - 1 ELSE instances

\* lines 215-220.  delete through a wild pointer frees what is no object:
\* undefined behaviour, recorded in stray.  With a negative size the vector
\* constructors of lines 39-41 throw std::length_error out of new: in a build
\* with exceptions the call ends there and global_hmm keeps the value it had,
\* in a build without them the program aborts.
createHMM(states, obs) ==
    /\ Ready
    /\ AfterDelete < MaxInstances
    /\ args' = <<states, obs>>
    /\ NoReturn
    /\ stray' = (stray \/ global_hmm = "wild")
    /\ instances' = IF states >= 0 /\ obs >= 0 THEN AfterDelete + 1 ELSE AfterDelete
    /\ IF states >= 0 /\ obs >= 0
       THEN /\ Constructed(states, obs)
            /\ global_hmm' = "live"
            /\ op' = "createHMM"
       ELSE /\ IF global_hmm = "live" THEN Destroyed ELSE SameObject
            /\ global_hmm' = IF global_hmm = "null" THEN "null" ELSE "wild"
            /\ op' \in {"createHMM", "aborted"}
    /\ UNCHANGED <<ref, dtw_vars, frame_vars>>

\* lines 269-274
cleanupHMM ==
    /\ Ready
    /\ op' = "cleanupHMM"
    /\ args' = <<>>
    /\ NoReturn
    /\ stray' = (stray \/ global_hmm = "wild")
    /\ instances' = AfterDelete
    /\ global_hmm' = "null"
    /\ IF global_hmm = "live" THEN Destroyed ELSE SameObject
    /\ UNCHANGED <<ref, dtw_vars, frame_vars>>

\* the call of an exported function that finds global_hmm null and returns
NullCall(name, a) ==
    /\ Ready
    /\ global_hmm = "null"
    /\ op' = name
    /\ args' = a
    /\ UNCHANGED <<num_states, num_observations, tables, stray, ref, dtw_vars,
                   frame_vars, global_vars>>

\* a member function called through a wild pointer: undefined behaviour,
\* which may store anywhere
WildCall(name, a) ==
    /\ Ready
    /\ global_hmm = "wild"
    /\ op' = name
    /\ args' = a
    /\ stray' \in {stray, TRUE}
    /\ UNCHANGED <<num_states, num_observations, tables, ref, dtw_vars, frame_vars,
                   global_vars>>

\* the out-of-bounds store of a setter (lines 47, 54, 61) landing on the
\* pointer global_hmm (line 212): the bits of log(prob) are not zero for
\* prob # 1, so the pointer is no longer null and points to no object, and
\* the object it pointed to stays allocated
StoreOnPointer(name, a) ==
    /\ Ready
    /\ global_hmm = "live"
    /\ op' = name
    /\ args' = a
    /\ NoReturn
    /\ stray' = TRUE
    /\ global_hmm' = "wild"
    /\ UNCHANGED <<num_states, num_observations, tables, ref, dtw_vars, frame_vars,
                   instances>>

\* lines 234-238
setInitial(state, prob) ==
    \/ NullCall("setInitialProb", <<state, prob>>) /\ NoReturn
    \/ WildCall("setInitialProb", <<state, prob>>) /\ NoReturn
    \/ /\ global_hmm = "live"
       /\ setInitialProb(state, prob)
       /\ UNCHANGED <<dtw_vars, frame_vars, global_vars>>
    \/ /\ prob > 0 /\ state < 0
       /\ StoreOnPointer("setInitialProb", <<state, prob>>)

\* lines 222-226
setTransition(from_state, to_state, prob) ==
    \/ NullCall("setTransitionProb", <<from_state, to_state, prob>>) /\ NoReturn
    \/ WildCall("setTransitionProb", <<from_state, to_state, prob>>) /\ NoReturn
    \/ /\ global_hmm = "live"
       /\ setTransitionProb(from_state, to_state, prob)
       /\ UNCHANGED <<dtw_vars, frame_vars, global_vars>>
    \/ /\ prob > 0 /\ from_state < num_states /\ to_state < num_states
       /\ (from_state < 0 \/ to_state < 0)
       /\ StoreOnPointer("setTransitionProb", <<from_state, to_state, prob>>)

\* lines 228-232
setEmission(state, observation, prob) ==
    \/ NullCall("setEmissionProb", <<state, observation, prob>>) /\ NoReturn
    \/ WildCall("setEmissionProb", <<state, observation, prob>>) /\ NoReturn
    \/ /\ global_hmm = "live"
       /\ setEmissionProb(state, observation, prob)
       /\ UNCHANGED <<dtw_vars, frame_vars, global_vars>>
    \/ /\ prob > 0 /\ state < num_states /\ observation < num_observations
       /\ (state < 0 \/ observation < 0)
       /\ StoreOnPointer("setEmissionProb", <<state, observation, prob>>)

\* what a decoder called through a wild pointer may return
WildPaths(obs) == {<<>>, [k \in 1..Len(obs) |-> 0]}
WildLogs == {LOG_ZERO, NegInfinity}

\* lines 240-249, the exported viterbi
ExportedViterbi(obs) ==
    \/ /\ NullCall("viterbi", <<>>)
       /\ observations' = obs
       /\ ret_path' = <<>>
       /\ ret_logp' = LOG_ZERO
       /\ oob_read' = FALSE
    \/ /\ WildCall("viterbi", <<>>)
       /\ observations' = obs
       /\ ret_path' \in WildPaths(obs)
       /\ ret_logp' = LOG_ZERO
       /\ oob_read' = FALSE
    \/ /\ global_hmm = "live"
       /\ \E garbage \in Garbage : ViterbiReturns(obs, viterbi(obs, garbage))

\* lines 251-258 and 260-267, the exported forward and backward
ExportedLikelihood(name, obs, value) ==
    \/ /\ NullCall(name, <<>>)
       /\ observations' = obs
       /\ ret_logp' = NegInfinity
       /\ ret_path' = <<>>
       /\ oob_read' = FALSE
    \/ /\ WildCall(name, <<>>)
       /\ observations' = obs
       /\ ret_logp' \in WildLogs
       /\ ret_path' = <<>>
       /\ oob_read' = FALSE
    \/ /\ global_hmm = "live"
       /\ Decoded(name, obs)
       /\ ret_logp' = value
       /\ ret_path' = <<>>
       /\ oob_read' = FALSE

GlobalInit ==
    /\ DTWIdle
    /\ FramesIdle
    /\ GlobalIdle
    /\ HMMConstruct(0, 0)
    /\ ref = TieModel
    /\ HMMFresh

CallCreate == \E sh \in GlobalShapes : createHMM(sh[1], sh[2])

CallCleanup == cleanupHMM

GlobalSetInitial ==
    \E s \in -1..num_states, p \in GlobalProbs : setInitial(s, p)

GlobalSetTransition ==
    \E i \in -1..num_states, j \in -1..num_states, p \in GlobalProbs :
        setTransition(i, j, p)

GlobalSetEmission ==
    \E s \in -1..num_states, o \in -1..num_observations, p \in GlobalProbs :
        setEmission(s, o, p)

GlobalViterbi == \E obs \in GlobalObs : ExportedViterbi(obs)

GlobalForward == \E obs \in GlobalObs : ExportedLikelihood("forward", obs, forward(obs))

GlobalBackward == \E obs \in GlobalObs : ExportedLikelihood("backward", obs, backward(obs))

\* the exported function has returned; an aborted program takes no more calls
GlobalReturn == op # "aborted" /\ Return

GlobalNext ==
    \/ CallCreate
    \/ CallCleanup
    \/ GlobalSetInitial
    \/ GlobalSetTransition
    \/ GlobalSetEmission
    \/ GlobalViterbi
    \/ GlobalForward
    \/ GlobalBackward
    \/ GlobalReturn

GlobalSpec == GlobalInit /\ [][GlobalNext]_vars

----------------------------------------------------------------------------
(* Claim about the global HMM instance *)

\* no exported call changes the HMM, memory outside it, or the pointer
NoEffect == UNCHANGED <<num_states, num_observations, tables, stray, global_vars>>

\* C14: across any sequence of createHMM, cleanupHMM, setTransition,
\* setEmission, setInitial, viterbi, forward and backward calls, at most one
\* HMM instance exists; while none exists the setters have no effect,
\* viterbi returns an empty array and forward and backward return -infinity;
\* cleanupHMM leaves no instance and, repeated, changes nothing; and right
\* after createHMM(N, K) the instance has N states, K symbols and every
\* table entry LOG_ZERO.
C14_SingletonLifecycle ==
    [][/\ instances' <= 1
       /\ (instances = 0 /\ op' \in SetterNames) => NoEffect
       /\ (instances = 0 /\ op' = "viterbi") => (ret_path' = <<>> /\ NoEffect)
       /\ (instances = 0 /\ op' \in {"forward", "backward"})
          => (ret_logp' = NegInfinity /\ NoEffect)
       /\ op' = "cleanupHMM"
          => /\ instances' = 0
             /\ global_hmm' = "null"
             /\ instances = 0 => NoEffect
       /\ (op' = "createHMM" /\ args'[1] >= 0 /\ args'[2] >= 0)
          => /\ instances' = 1
             /\ global_hmm' = "live"
             /\ num_states' = args'[1]
             /\ num_observations' = args'[2]
             /\ \A i \in 0..(args'[1] - 1) :
                   /\ initial_probs'[i] = LOG_ZERO
                   /\ \A j \in 0..(args'[1] - 1) : transition_probs'[i][j] = LOG_ZERO
                   /\ \A o \in 0..(args'[2] - 1) : emission_probs'[i][o] = LOG_ZERO]_vars

====
